---- MODULE Spec2Model ----
(***************************************************************************)
(* wayr ("Why Are You Running?"): a model of the process discovery and     *)
(* provenance engine of src/wayr.py.                                       *)
(*                                                                         *)
(*   SpecAncestry : build_ancestry walking parent links through snapshots  *)
(*   SpecDetect   : detect_source classifying a resolved ancestry          *)
(*   SpecTree     : build_process_tree expanding a root into its tree      *)
(*   SpecPort     : find_process_by_port, lsof first, /proc/net fallback   *)
(*   SpecMain     : main's build_ancestry followed by detect_source        *)
(*   SpecAddress  : the fallback's address conversion over sample octets   *)
(*   SpecSnapshot : get_process_info on Linux, macOS and other Unix        *)
(*   SpecCli      : main from the command line to the exit status          *)
(*   SpecAncestryFair : SpecAncestry with the loop's steps taken           *)
(*                                                                         *)
(* A ProcessInfo is a record; Optional[ProcessInfo] is a sequence of       *)
(* length 0 (None) or 1.  The operating system's process table is the      *)
(* function procTable: pid -> parent pid, or NoProcess when the pid       *)
(* cannot be snapshotted (exited, unreadable).                             *)
(***************************************************************************)
EXTENDS Integers, Sequences, FiniteSets, TLC

VARIABLES
    pc,             \* position of the program
    procTable,      \* external state read by get_process_info
    proc,           \* the target ProcessInfo
    ancestry,       \* build_ancestry: the accumulating list
    current_pid,    \* build_ancestry: the pid to snapshot next
    snapshots,      \* the pids passed to get_process_info so far, in order
    IS_LINUX,       \* platform.system() == 'Linux'
    scan,           \* detect_source: position in reversed(proc.ancestry)
    detect_returns, \* one record per detect_source call that has returned
    pid_to_ppid,    \* build_process_tree: the link table `ps` returned
    process_cache,  \* build_process_tree: pid -> the ProcessInfo object
    queue,          \* build_process_tree: objects waiting, by cache key
    children,       \* the children list of every object, by cache key
    tree_rc,        \* build_process_tree: the return code of `ps`, once it has one
    port,           \* find_process_by_port: the port asked for
    lsof_pids,      \* the lines of `lsof -t` still to be read
    net_lines,      \* the lines of /proc/net/tcp, tcp6 still to be read
    processes,      \* find_process_by_port: the result list
    resolved,       \* the <<pid, address>> pairs resolved so far
    listeners,      \* the pids snapshotted as listeners, by either strategy
    net_log,        \* the socket-table lines read so far and what each gave
    IS_MACOS,       \* platform.system() == 'Darwin'
    snap_pid,       \* get_process_info: the pid asked for
    snap_fields,    \* get_process_info: the locals parsed from the basic record
    snap_result,    \* get_process_info: the Optional[ProcessInfo] returned
    snap_failed,    \* the reads and commands that failed, with the failure
    args,           \* main: the parsed command line
    lookup,         \* main: the lookup chosen and whether it returned
    exit_status     \* main: the status the process exited with, once it has

vars == <<pc, procTable, proc, ancestry, current_pid, snapshots, IS_LINUX, scan,
          detect_returns, pid_to_ppid, process_cache, queue, children, tree_rc,
          port, lsof_pids, net_lines, processes, resolved, listeners, net_log,
          IS_MACOS, snap_pid, snap_fields, snap_result, snap_failed,
          args, lookup, exit_status>>

mainVars == <<args, lookup, exit_status>>

snapVars == <<IS_MACOS, snap_pid, snap_fields, snap_result, snap_failed>>

portVars == <<port, lsof_pids, net_lines, processes, resolved, listeners,
              net_log>>

treeVars == <<pid_to_ppid, process_cache, queue, children, tree_rc>>

ancestryVars == <<ancestry, current_pid, snapshots>>

detectVars == <<IS_LINUX, scan, detect_returns>>

(***************************************************************************)
(* Bounds of the model and constants of the program                        *)
(***************************************************************************)
MaxPid == 3

MaxDepth == 20

Pids == 1..MaxPid

NoProcess == -1

None == "<None>"

(***************************************************************************)
(* ProcessInfo and the snapshot provider                                   *)
(***************************************************************************)
ProcessInfo(pid, name, ppid, cmd, start_time) ==
    [pid |-> pid, name |-> name, ppid |-> ppid, cmd |-> cmd,
     start_time |-> start_time,
     source |-> None, source_detail |-> None,
     container_name |-> None, container_image |-> None,
     listening_addresses |-> <<>>]

\* the command a pid runs: pid 1 is init, pid 2 a login shell
Comm(pid) ==
    CASE pid = 1 -> "systemd"
      [] pid = 2 -> "bash"
      [] OTHER -> "proc"

get_process_info_placeholder(os, pid) ==
    <<ProcessInfo(pid, Comm(pid),
                  IF pid \in DOMAIN os /\ os[pid] # NoProcess THEN os[pid] ELSE 0,
                  Comm(pid), 0)>>

\* get_process_info: None for a missing process, else a fresh snapshot whose
\* pid is the pid asked for and whose ppid is the one the table holds.
get_process_info(os, pid) ==
    IF pid \notin DOMAIN os \/ os[pid] = NoProcess
    THEN <<>>
    ELSE <<ProcessInfo(pid, Comm(pid), os[pid], Comm(pid), 0)>>

(***************************************************************************)
(* run_command                                                             *)
(***************************************************************************)
\* what subprocess.run does with a command: it exits with 0, it exits with
\* another code, or the launch raises (no such program, no permission to
\* execute it)
RunOutcomes == {"exit 0", "exit 1", "FileNotFoundError", "PermissionError"}

Raises(outcome) == outcome \in {"FileNotFoundError", "PermissionError"}

\* run_command: the exceptions its except clauses turn into a return code
RunCommandCatches(exc) == exc \in {"CalledProcessError", "FileNotFoundError"}

\* the return code run_command gives for an outcome that does not escape it
ReturnCode(outcome) == IF outcome = "exit 0" THEN 0 ELSE 1

\* an exception run_command lets through
Escapes(outcome) == Raises(outcome) /\ ~RunCommandCatches(outcome)

(***************************************************************************)
(* build_ancestry                                                          *)
(***************************************************************************)
WalkContinuesAtZero(cur) == cur >= 0

\* while current_pid > 0
WalkContinues(cur) == cur > 0

InsertParentAtEnd(list, parent) == Append(list, parent)

\* ancestry.insert(0, parent)
InsertParent(list, parent) == <<parent>> \o list

SafetyStopAtInitOnly(cur, list) == cur = 1

\* if current_pid == 1 or len(ancestry) > 20: break
SafetyStop(cur, list) == cur = 1 \/ Len(list) > MaxDepth

BuildAncestryEnter ==
    /\ UNCHANGED mainVars
    /\ pc = "call_build_ancestry"
    /\ ancestry' = <<>>
    /\ current_pid' = proc.ppid
    /\ pc' = "ancestry_loop"
    /\ UNCHANGED <<procTable, proc, snapshots, detectVars, treeVars, portVars, snapVars>>

\* one iteration of the loop: snapshot, prepend, advance, safety check
BuildAncestryStep ==
    /\ UNCHANGED mainVars
    /\ pc = "ancestry_loop"
    /\ WalkContinues(current_pid)
    /\ LET parent == get_process_info(procTable, current_pid) IN
         /\ snapshots' = Append(snapshots, current_pid)
         /\ IF parent = <<>>
            THEN /\ pc' = "ancestry_done"
                 /\ UNCHANGED <<ancestry, current_pid>>
            ELSE /\ ancestry' = InsertParent(ancestry, parent[1])
                 /\ current_pid' = parent[1].ppid
                 /\ pc' = IF SafetyStop(current_pid', ancestry')
                          THEN "ancestry_done" ELSE "ancestry_loop"
    /\ UNCHANGED <<procTable, proc, detectVars, treeVars, portVars, snapVars>>

\* the loop condition fails: return ancestry
BuildAncestryExit ==
    /\ UNCHANGED mainVars
    /\ pc = "ancestry_loop"
    /\ ~WalkContinues(current_pid)
    /\ pc' = "ancestry_done"
    /\ UNCHANGED <<procTable, proc, ancestryVars, detectVars, treeVars, portVars, snapVars>>

\* The target is a snapshot of a live process; the table is arbitrary
\* (cycles and self-parents included).
InitAncestry ==
    /\ pc = "call_build_ancestry"
    /\ procTable \in [Pids -> {NoProcess} \cup (0..MaxPid)]
    /\ \E p \in Pids :
         /\ procTable[p] # NoProcess
         /\ proc = get_process_info(procTable, p)[1]
    /\ ancestry = <<>>
    /\ current_pid = 0
    /\ snapshots = <<>>
    /\ IS_LINUX = TRUE
    /\ scan = 0
    /\ detect_returns = <<>>
    /\ pid_to_ppid = <<>>
    /\ process_cache = <<>>
    /\ queue = <<>>
    /\ children = <<>>
    /\ tree_rc = <<>>
    /\ port = 0
    /\ lsof_pids = <<>>
    /\ net_lines = <<>>
    /\ processes = <<>>
    /\ resolved = {}
    /\ listeners = {}
    /\ net_log = <<>>
    /\ IS_MACOS = FALSE
    /\ snap_pid = 0
    /\ snap_fields = <<>>
    /\ snap_result = <<>>
    /\ snap_failed = {}
    /\ args = <<>>
    /\ lookup = <<>>
    /\ exit_status = <<>>

NextAncestry ==
    \/ BuildAncestryEnter
    \/ BuildAncestryStep
    \/ BuildAncestryExit

SpecAncestry == InitAncestry /\ [][NextAncestry]_vars

\* build_ancestry is straight-line sequential code: a step that can be
\* taken is taken
SpecAncestryFair == SpecAncestry /\ WF_vars(NextAncestry)

(***************************************************************************)
(* Properties of build_ancestry                                            *)
(***************************************************************************)
AncestryPids == {ancestry[i].pid : i \in 1..Len(ancestry)}

\* the pid reached from pid after n parent links of the table (0 when the
\* chain leaves the table)
RECURSIVE ParentAfter(_, _)
ParentAfter(pid, n) ==
    IF n = 0 THEN pid
    ELSE IF pid \notin Pids \/ procTable[pid] = NoProcess THEN 0
    ELSE ParentAfter(procTable[pid], n - 1)

\* pid 1 is a live init without a parent and lies within MaxDepth parent
\* links of the target
InitReachable ==
    /\ procTable[1] = 0
    /\ \E n \in 1..MaxDepth : ParentAfter(proc.pid, n) = 1

\* C1: the sequence build_ancestry returns has length at most 20, for every
\* target and every parent-link relation (cycles and self-parents included).
C1_AncestryAtMost20 ==
    pc = "ancestry_done" => Len(ancestry) <= 20

\* C3: whenever pid 1 is reachable from the target within 20 parent links,
\* the snapshot of pid 1 is the final ancestor resolved (the front of the
\* root-first list) and no snapshot is taken after it.
C3_InitIsFinalAncestor ==
    (pc = "ancestry_done" /\ InitReachable) =>
        /\ ancestry # <<>>
        /\ ancestry[1].pid = 1
        /\ snapshots[Len(snapshots)] = 1

\* C5: the list is ordered furthest ancestor first: each element is the
\* parent, as snapshotted, of the element after it, and the last element is
\* the target's parent.
C5_RootFirstOrder ==
    /\ \A i \in 1..(Len(ancestry) - 1) : ancestry[i + 1].ppid = ancestry[i].pid
    /\ ancestry # <<>> => ancestry[Len(ancestry)].pid = proc.ppid

C5_Witness ==
    /\ pc = "ancestry_done"
    /\ Len(ancestry) = 2
    /\ ancestry[1].pid # ancestry[2].pid
    /\ ancestry[2].pid # proc.pid

\* C22: build_ancestry terminates for every parent-link relation, a
\* self-parent process and a cycle of parents that never reaches pid 0 or
\* pid 1 included, and it takes at most 21 snapshots.
C22_TerminatesWithin21 ==
    /\ <>(pc = "ancestry_done")
    /\ [](Len(snapshots) <= 21)

\* a cycle of parents that avoids pid 1 is walked until the length test
\* stops it
C22_Witness ==
    /\ pc = "ancestry_done"
    /\ Len(snapshots) = 21
    /\ 1 \notin AncestryPids
    /\ \E i \in 1..Len(ancestry) : ancestry[i].ppid = ancestry[i].pid

\* C6: no element of the returned sequence has the target's own pid.
C6_TargetNotOwnAncestor ==
    pc = "ancestry_done" => proc.pid \notin AncestryPids

(***************************************************************************)
(* detect_source                                                           *)
(***************************************************************************)
MaxAncestryLen == 4

FullKindsLen == 2

\* Python's `needle in hay` on strings
Contains(hay, needle) ==
    \E i \in 1..(Len(hay) - Len(needle) + 1) :
        SubSeq(hay, i, i + Len(needle) - 1) = needle

\* Python's truth value of an Optional[str]
Truthy(s) == s # None /\ s # ""

Shells == {"bash", "zsh", "fish", "sh", "dash", "tcsh", "csh"}

IsSystemdAnyPid(a) == a.name = "systemd"

IsSystemd(a) == a.name = "systemd" /\ a.pid # 1

IsLaunchd(a) == a.name = "launchd"

IsDocker(a) == Contains(a.name, "docker") \/ Contains(a.name, "containerd")

IsPm2(a) == Contains(a.cmd, "PM2") \/ Contains(a.name, "pm2")

IsSupervisor(a) == Contains(a.name, "supervisor")

IsCron(a) == a.name = "cron" \/ Contains(a.cmd, "CRON")

IsShell(a) == a.name \in Shells

MatchedRuleNoShell(a) ==
    IF IsSystemd(a) THEN "systemd"
    ELSE IF IsLaunchd(a) THEN "launchd"
    ELSE IF IsDocker(a) THEN "docker"
    ELSE IF IsPm2(a) THEN "pm2"
    ELSE IF IsSupervisor(a) THEN "supervisor"
    ELSE IF IsCron(a) THEN "cron"
    ELSE None

MatchedRuleShellFirst(a) ==
    IF IsShell(a) THEN "interactive shell"
    ELSE IF IsSystemd(a) THEN "systemd"
    ELSE IF IsLaunchd(a) THEN "launchd"
    ELSE IF IsDocker(a) THEN "docker"
    ELSE IF IsPm2(a) THEN "pm2"
    ELSE IF IsSupervisor(a) THEN "supervisor"
    ELSE IF IsCron(a) THEN "cron"
    ELSE None

\* the if-chain of the loop body: the source the ancestor gives, or None
\* when the body falls through to the next ancestor
MatchedRule(a) ==
    IF IsSystemd(a) THEN "systemd"
    ELSE IF IsLaunchd(a) THEN "launchd"
    ELSE IF IsDocker(a) THEN "docker"
    ELSE IF IsPm2(a) THEN "pm2"
    ELSE IF IsSupervisor(a) THEN "supervisor"
    ELSE IF IsCron(a) THEN "cron"
    ELSE IF IsShell(a) THEN "interactive shell"
    ELSE None

ForwardOrder(list) == [k \in 1..Len(list) |-> k]

\* reversed(proc.ancestry): the k-th ancestor visited is list[ScanOrder[k]]
ScanOrder(list) == [k \in 1..Len(list) |-> Len(list) - k + 1]

\* `systemctl status <pid>`: the first unit name the regular expression finds,
\* None when the command fails or no line holds one
SystemctlUnits == {None, "nginx.service"}

\* `docker ps --no-trunc`: the last row holding the target's pid, if any
DockerPsRows == {<<>>, <<[name |-> "web", image |-> "nginx:latest"]>>}

AttributeAccumulating(p, a, rule, linux, unit, row) ==
    CASE rule = "systemd" ->
           [p EXCEPT !.source = "systemd",
                     !.source_detail = IF linux /\ unit # None THEN unit ELSE @]
      [] rule = "docker" ->
           IF row = <<>>
           THEN [p EXCEPT !.source = "docker"]
           ELSE [p EXCEPT !.source = "docker",
                          !.container_name = row[1].name,
                          !.container_image = row[1].image,
                          !.source_detail = row[1].name]
      [] rule = "interactive shell" ->
           [p EXCEPT !.source = "interactive shell",
                     !.source_detail = IF Truthy(@) THEN @ \o "," \o a.name
                                       ELSE a.name]
      [] OTHER -> [p EXCEPT !.source = rule]

\* the assignments of the matching branch
Attribute(p, a, rule, linux, unit, row) ==
    CASE rule = "systemd" ->
           [p EXCEPT !.source = "systemd",
                     !.source_detail = IF linux /\ unit # None THEN unit ELSE @]
      [] rule = "docker" ->
           IF row = <<>>
           THEN [p EXCEPT !.source = "docker"]
           ELSE [p EXCEPT !.source = "docker",
                          !.container_name = row[1].name,
                          !.container_image = row[1].image,
                          !.source_detail = row[1].name]
      [] rule = "interactive shell" ->
           [p EXCEPT !.source = "interactive shell", !.source_detail = a.name]
      [] OTHER -> [p EXCEPT !.source = rule]

DetectSourceEnter ==
    /\ UNCHANGED mainVars
    /\ pc = "call_detect_source"
    /\ scan' = 1
    /\ pc' = "detect_scan"
    /\ UNCHANGED <<procTable, proc, ancestryVars, IS_LINUX, detect_returns,
                   treeVars, portVars, snapVars>>

\* an ancestor no rule matches: on to the next one
DetectSourceSkip ==
    /\ UNCHANGED mainVars
    /\ pc = "detect_scan"
    /\ scan <= Len(ancestry)
    /\ MatchedRule(ancestry[ScanOrder(ancestry)[scan]]) = None
    /\ scan' = scan + 1
    /\ UNCHANGED <<pc, procTable, proc, ancestryVars, IS_LINUX, detect_returns,
                   treeVars, portVars, snapVars>>

\* the answers the branch of a rule asks for: systemctl is run in the systemd
\* branch on Linux, docker ps in the docker branch, nothing elsewhere
UnitsAsked(rule, linux) ==
    IF rule = "systemd" /\ linux THEN SystemctlUnits ELSE {None}

RowsAsked(rule) == IF rule = "docker" THEN DockerPsRows ELSE {<<>>}

\* the external commands answer a repeated call as they answered the first
SameAnswers(unit, row) ==
    detect_returns # <<>> =>
        unit = detect_returns[1].unit /\ row = detect_returns[1].row

\* what a call leaves behind when it returns
Returned(p, unit, row) ==
    [source |-> p.source, source_detail |-> p.source_detail,
     unit |-> unit, row |-> row]

\* an ancestor a rule matches: attribute the source and return
DetectSourceMatch ==
    /\ UNCHANGED mainVars
    /\ pc = "detect_scan"
    /\ scan <= Len(ancestry)
    /\ LET a == ancestry[ScanOrder(ancestry)[scan]]
           rule == MatchedRule(a)
       IN /\ rule # None
          /\ \E unit \in UnitsAsked(rule, IS_LINUX), row \in RowsAsked(rule) :
                /\ SameAnswers(unit, row)
                /\ proc' = Attribute(proc, a, rule, IS_LINUX, unit, row)
                /\ detect_returns' = Append(detect_returns,
                                            Returned(proc', unit, row))
    /\ pc' = "detect_done"
    /\ UNCHANGED <<procTable, ancestryVars, IS_LINUX, scan, treeVars, portVars, snapVars>>

DefaultSourceKept(p) == p

\* if not proc.source: proc.source = "unknown"
DefaultSource(p) ==
    IF ~Truthy(p.source) THEN [p EXCEPT !.source = "unknown"] ELSE p

\* the loop ended without a return: the default
DetectSourceDefault ==
    /\ UNCHANGED mainVars
    /\ pc = "detect_scan"
    /\ scan > Len(ancestry)
    /\ proc' = DefaultSource(proc)
    /\ detect_returns' = Append(detect_returns, Returned(proc', None, <<>>))
    /\ pc' = "detect_done"
    /\ UNCHANGED <<procTable, ancestryVars, IS_LINUX, scan, treeVars, portVars, snapVars>>

MaxDetectCalls == 2

\* the caller classifies the same process once more
DetectSourceAgain ==
    /\ UNCHANGED mainVars
    /\ pc = "detect_done"
    /\ Len(detect_returns) < MaxDetectCalls
    /\ pc' = "call_detect_source"
    /\ UNCHANGED <<procTable, proc, ancestryVars, detectVars, treeVars, portVars, snapVars>>

\* The processes an ancestry is drawn from: name and command line.
InitKind == [name |-> "systemd", cmd |-> "/sbin/init"]

AncestorKinds ==
    { [name |-> "systemd",     cmd |-> "/lib/systemd/systemd --user"],
      [name |-> "launchd",     cmd |-> "/sbin/launchd"],
      [name |-> "docker",      cmd |-> "docker run -it ubuntu"],
      [name |-> "dockerd",     cmd |-> "dockerd --label PM2"],
      [name |-> "containerd-shim", cmd |-> "containerd-shim -namespace moby"],
      [name |-> "node",        cmd |-> "PM2 v5.3.0: God Daemon"],
      [name |-> "supervisord", cmd |-> "python3 /usr/bin/supervisord"],
      [name |-> "cron",        cmd |-> "/usr/sbin/cron -f"],
      [name |-> "sh",          cmd |-> "/bin/sh -c CRON backup"],
      [name |-> "bash",        cmd |-> "-bash"],
      [name |-> "python3",     cmd |-> "python3 app.py"] }

\* the kinds long ancestries are drawn from
CoreKinds ==
    { k \in AncestorKinds : k.name \in {"systemd", "docker", "bash", "python3"} }

\* ancestries of up to FullKindsLen elements are drawn from every kind,
\* longer ones from the core kinds
KindsFor(n) == IF n <= FullKindsLen THEN AncestorKinds ELSE CoreKinds

PidAt(kinds, i) == IF i = 1 /\ kinds[1] = InitKind THEN 1 ELSE i + 1

\* the ancestry as build_ancestry resolved it: each element the parent of
\* the next
ResolvedAncestry(kinds) ==
    [i \in 1..Len(kinds) |->
        ProcessInfo(PidAt(kinds, i), kinds[i].name,
                    IF i = 1 THEN (IF kinds[1] = InitKind THEN 0 ELSE 1)
                    ELSE PidAt(kinds, i - 1),
                    kinds[i].cmd, 0)]

InitDetect ==
    /\ pc = "call_detect_source"
    /\ IS_LINUX \in BOOLEAN
    /\ \E n \in 0..MaxAncestryLen :
         \E kinds \in [1..n -> {InitKind} \cup KindsFor(n)] :
            \* pid 1 (init) can only be the root
            /\ \A i \in 2..n : kinds[i] # InitKind
            /\ ancestry = ResolvedAncestry(kinds)
            /\ proc = ProcessInfo(n + 2, "app",
                                  IF n = 0 THEN 0 ELSE PidAt(kinds, n),
                                  "python3 app.py", 0)
    /\ procTable = <<>>
    /\ current_pid = 0
    /\ snapshots = <<>>
    /\ scan = 0
    /\ detect_returns = <<>>
    /\ pid_to_ppid = <<>>
    /\ process_cache = <<>>
    /\ queue = <<>>
    /\ children = <<>>
    /\ tree_rc = <<>>
    /\ port = 0
    /\ lsof_pids = <<>>
    /\ net_lines = <<>>
    /\ processes = <<>>
    /\ resolved = {}
    /\ listeners = {}
    /\ net_log = <<>>
    /\ IS_MACOS = FALSE
    /\ snap_pid = 0
    /\ snap_fields = <<>>
    /\ snap_result = <<>>
    /\ snap_failed = {}
    /\ args = <<>>
    /\ lookup = <<>>
    /\ exit_status = <<>>

NextDetect ==
    \/ DetectSourceEnter
    \/ DetectSourceSkip
    \/ DetectSourceMatch
    \/ DetectSourceDefault
    \/ DetectSourceAgain

SpecDetect == InitDetect /\ [][NextDetect]_vars

(***************************************************************************)
(* main: the context of one match, build_ancestry then detect_source       *)
(***************************************************************************)
\* proc.ancestry = build_ancestry(proc); detect_source(proc)
MainDetectSource ==
    /\ UNCHANGED mainVars
    /\ pc = "ancestry_done"
    /\ pc' = "call_detect_source"
    /\ UNCHANGED <<procTable, proc, ancestryVars, detectVars, treeVars, portVars, snapVars>>

NextMain ==
    \/ BuildAncestryEnter
    \/ BuildAncestryStep
    \/ BuildAncestryExit
    \/ MainDetectSource
    \/ DetectSourceEnter
    \/ DetectSourceSkip
    \/ DetectSourceMatch
    \/ DetectSourceDefault

SpecMain == InitAncestry /\ [][NextMain]_vars

\* C14: for a target whose ppid is 0, build_ancestry returns the empty
\* sequence without taking any snapshot, and the detect_source that follows
\* sets source to 'unknown'.
C14_NoParentUnknown ==
    proc.ppid = 0 =>
        /\ ancestry = <<>>
        /\ snapshots = <<>>
        /\ pc = "detect_done" => proc.source = "unknown"

\* a target without a parent, classified, other processes being alive
C14_Witness ==
    /\ pc = "detect_done"
    /\ proc.ppid = 0
    /\ proc.source = "unknown"
    /\ \E p \in Pids \ {proc.pid} : procTable[p] # NoProcess

(***************************************************************************)
(* Properties of detect_source                                             *)
(***************************************************************************)
\* the rule table in the order the specification gives it
RuleTable ==
    <<"systemd", "launchd", "docker", "pm2", "supervisor", "cron",
      "interactive shell">>

RuleHolds(rule, a) ==
    CASE rule = "systemd" -> IsSystemd(a)
      [] rule = "launchd" -> IsLaunchd(a)
      [] rule = "docker" -> IsDocker(a)
      [] rule = "pm2" -> IsPm2(a)
      [] rule = "supervisor" -> IsSupervisor(a)
      [] rule = "cron" -> IsCron(a)
      [] rule = "interactive shell" -> IsShell(a)

RulesHolding(a) == {i \in 1..Len(RuleTable) : RuleHolds(RuleTable[i], a)}

Qualifying == {i \in 1..Len(ancestry) : RulesHolding(ancestry[i]) # {}}

\* the matching ancestor nearest to the target
Nearest == CHOOSE i \in Qualifying : \A j \in Qualifying : j <= i

EarliestRule(a) ==
    RuleTable[CHOOSE i \in RulesHolding(a) : \A j \in RulesHolding(a) : i <= j]

\* the ancestry [init (pid 1), systemd unit process, docker, bash]
IsDockerShellChain ==
    /\ Len(ancestry) = 4
    /\ ancestry[1].pid = 1
    /\ ancestry[2].name = "systemd" /\ ancestry[2].pid # 1
    /\ ancestry[3].name = "docker"
    /\ ancestry[4].name = "bash"

\* C2 (as stated): with ancestry [init, systemd unit, docker, bash]
\* detect_source sets source to 'docker', not 'interactive shell'.
C2_DockerBeatsShell ==
    (pc = "detect_done" /\ IsDockerShellChain) =>
        proc.source = "docker" /\ proc.source # "interactive shell"

\* C2 (amended): with ancestry [init, systemd unit, docker, bash]
\* detect_source sets source to 'interactive shell' with detail 'bash': bash
\* is the matching ancestor nearest to the target.
C2_NearestShellWins ==
    (pc = "detect_done" /\ IsDockerShellChain) =>
        /\ proc.source = "interactive shell"
        /\ proc.source_detail = "bash"
        /\ proc.container_name = None

C2_Witness == pc = "detect_done" /\ IsDockerShellChain

\* C7: one source is attributed, the category of the matching ancestor
\* nearest to the target; source, source_detail and the container fields
\* hold only what that ancestor's rule assigns, whatever lies farther away.
C7_NearestMatchWins ==
    pc = "detect_done" =>
        IF Qualifying = {}
        THEN /\ proc.source = "unknown"
             /\ proc.source_detail = None
             /\ proc.container_name = None /\ proc.container_image = None
        ELSE LET a == ancestry[Nearest] IN
             /\ \E i \in RulesHolding(a) : proc.source = RuleTable[i]
             /\ proc.source = "interactive shell" => proc.source_detail = a.name
             /\ proc.source \in {"launchd", "pm2", "supervisor", "cron"}
                    => proc.source_detail = None
             /\ proc.source = "systemd" =>
                    /\ proc.source_detail \in SystemctlUnits
                    /\ ~IS_LINUX => proc.source_detail = None
             /\ proc.source = "docker" =>
                    /\ proc.source_detail = proc.container_name
                    /\ (proc.container_name = None) = (proc.container_image = None)
             /\ proc.source # "docker" =>
                    proc.container_name = None /\ proc.container_image = None

\* two matching ancestors of different categories, and a non-matching one
\* nearer to the target than both
C7_Witness ==
    /\ pc = "detect_done"
    /\ Cardinality(Qualifying) >= 2
    /\ Nearest < Len(ancestry)
    /\ \E j \in Qualifying :
          j < Nearest /\ RulesHolding(ancestry[j]) \cap RulesHolding(ancestry[Nearest]) = {}
    /\ proc.source = EarliestRule(ancestry[Nearest])

\* C8: an ancestor that satisfies several rules gets the category of the
\* earliest of them in the order systemd, launchd, docker, pm2, supervisor,
\* cron, interactive shell.
C8_EarliestRuleWins ==
    (pc = "detect_done" /\ scan <= Len(ancestry)) =>
        LET a == ancestry[ScanOrder(ancestry)[scan]] IN
        /\ RulesHolding(a) # {}
        /\ proc.source = EarliestRule(a)
        /\ (a.name = "sh" /\ Contains(a.cmd, "CRON")) => proc.source = "cron"
        /\ (a.name = "dockerd" /\ Contains(a.cmd, "PM2")) => proc.source = "docker"

C8_Witness ==
    /\ pc = "detect_done"
    /\ scan <= Len(ancestry)
    /\ LET a == ancestry[ScanOrder(ancestry)[scan]] IN
         /\ a.name = "sh" /\ Contains(a.cmd, "CRON")
         /\ Cardinality(RulesHolding(a)) = 2
         /\ proc.source = "cron"

\* C12: for a process whose source is not yet set and whose ancestry holds
\* no ancestor matching any rule (the empty ancestry included),
\* detect_source sets source to 'unknown'; after detect_source returns,
\* source is never null.
C12_DefaultUnknown ==
    pc = "detect_done" =>
        /\ proc.source # None
        /\ Truthy(proc.source)
        /\ Qualifying = {} => proc.source = "unknown"

\* a first call on an ancestry of two processes no rule matches
C12_Witness ==
    /\ pc = "detect_done"
    /\ Len(detect_returns) = 1
    /\ Len(ancestry) >= 2
    /\ Qualifying = {}
    /\ proc.source = "unknown"

\* an ancestor named 'systemd' that is not pid 1
SystemdUnitProcess(a) == a.name = "systemd" /\ a.pid # 1

\* an ancestor some rule matches, pid 1 named 'systemd' not counting as a
\* systemd match
Matching(a) ==
    \/ SystemdUnitProcess(a)
    \/ IsLaunchd(a) \/ IsDocker(a) \/ IsPm2(a)
    \/ IsSupervisor(a) \/ IsCron(a) \/ IsShell(a)

OnlyAncestorIsInitSystemd ==
    /\ Len(ancestry) = 1
    /\ ancestry[1].name = "systemd"
    /\ ancestry[1].pid = 1

\* C27: an ancestor named 'systemd' whose pid is 1 never makes the source
\* 'systemd': the source is 'systemd' only if an ancestor named 'systemd'
\* with another pid is the nearest matching ancestor, and a target whose
\* only ancestor is systemd with pid 1 is classified 'unknown'.
C27_InitSystemdIgnored ==
    pc = "detect_done" =>
        /\ proc.source = "systemd" =>
              \E i \in 1..Len(ancestry) :
                  /\ SystemdUnitProcess(ancestry[i])
                  /\ \A j \in (i + 1)..Len(ancestry) : ~Matching(ancestry[j])
        /\ OnlyAncestorIsInitSystemd => proc.source = "unknown"

\* the target is a direct child of init, which is systemd
C27_Witness ==
    /\ pc = "detect_done"
    /\ OnlyAncestorIsInitSystemd
    /\ proc.source = "unknown"

\* C13: calling detect_source again on the same process with the same
\* resolved ancestry, the external queries answering as they did the first
\* time, leaves source and source_detail equal to their values after the
\* first call.
C13_Idempotent ==
    \A i \in 1..Len(detect_returns) :
        /\ detect_returns[i].source = detect_returns[1].source
        /\ detect_returns[i].source_detail = detect_returns[1].source_detail
        /\ pc = "detect_done" /\ i = Len(detect_returns) =>
              /\ proc.source = detect_returns[1].source
              /\ proc.source_detail = detect_returns[1].source_detail

\* a second call has returned, on a process whose unit systemctl named
C13_Witness ==
    /\ pc = "detect_done"
    /\ Len(detect_returns) = 2
    /\ detect_returns[1].unit = "nginx.service"
    /\ detect_returns[2].source = "systemd"
    /\ detect_returns[2].source_detail = "nginx.service"

(***************************************************************************)
(* build_process_tree                                                      *)
(*                                                                         *)
(* Objects are named by their key in process_cache: the cache holds one    *)
(* object per pid, so a key stands for the object's identity.  The root    *)
(* object is proc, cached under proc.pid.                                  *)
(***************************************************************************)
\* the link tables `ps -eo pid=,ppid=` can print: one parent per listed pid
LinkTables == UNION { [S -> 0..MaxPid] : S \in SUBSET Pids }

\* the pids of 1..n that satisfy the test, in increasing order
RECURSIVE Ascending(_, _)
Ascending(n, S) ==
    IF n = 0 THEN <<>>
    ELSE IF n \in S THEN Append(Ascending(n - 1, S), n)
    ELSE Ascending(n - 1, S)

ChildPidsAllEntries(table, pid) == Ascending(MaxPid, DOMAIN table)

ChildPidsOfOwnParent(table, pid) ==
    Ascending(MaxPid, {c \in DOMAIN table : pid \in DOMAIN table /\ c = table[pid]})

\* ppid_to_children.get(pid, []): the pids whose table entry names pid as
\* parent, in table order
ChildPids(table, pid) ==
    Ascending(MaxPid, {c \in DOMAIN table : table[c] = pid})

InChildrenNever(cache, list, obj) == FALSE

\* child_info in current.children: list membership is by identity or, for a
\* dataclass, by equality of the fields (pid first)
InChildren(cache, list, obj) ==
    \E k \in 1..Len(list) : list[k] = obj \/ cache[list[k]] = cache[obj]

\* the for loop over child_pids of one dequeued object; st holds the cache,
\* the children lists and the queue
RECURSIVE AttachChildren(_, _, _, _)
AttachChildren(st, cur, cs, os) ==
    IF cs = <<>> THEN st
    ELSE
      LET c == Head(cs)
          snap == IF c \in DOMAIN st.cache THEN <<>> ELSE get_process_info(os, c)
          skipped == c \notin DOMAIN st.cache /\ snap = <<>>
          cache1 == IF c \in DOMAIN st.cache \/ skipped THEN st.cache
                    ELSE (c :> snap[1]) @@ st.cache
          kids1 == IF c \in DOMAIN st.children \/ skipped THEN st.children
                   ELSE (c :> <<>>) @@ st.children
          attach == ~skipped /\ ~InChildren(cache1, kids1[cur], c)
          st1 == [cache |-> cache1,
                  children |-> IF attach
                               THEN [kids1 EXCEPT ![cur] = Append(@, c)]
                               ELSE kids1,
                  queue |-> IF attach THEN Append(st.queue, c) ELSE st.queue]
      IN AttachChildren(st1, cur, Tail(cs), os)

QueryFailedNever(rc) == FALSE

\* if rc != 0: return
QueryFailed(rc) == rc # 0

\* run ps, parse the table, seed the cache and the queue with the root; the
\* call of ps stands outside every try block
BuildTreeEnter ==
    /\ UNCHANGED mainVars
    /\ pc = "call_build_process_tree"
    /\ \E outcome \in RunOutcomes, table \in LinkTables :
         IF Escapes(outcome)
         THEN /\ table = <<>>
              /\ pc' = "tree_raised"
              /\ UNCHANGED treeVars
         ELSE /\ tree_rc' = <<ReturnCode(outcome)>>
              /\ IF QueryFailed(ReturnCode(outcome))
                 THEN /\ table = <<>>
                      /\ pc' = "tree_done"
                      /\ UNCHANGED <<pid_to_ppid, process_cache, queue, children>>
                 ELSE /\ pid_to_ppid' = table
                      /\ process_cache' = (proc.pid :> proc)
                      /\ queue' = <<proc.pid>>
                      /\ pc' = "tree_loop"
                      /\ UNCHANGED children
    /\ UNCHANGED <<procTable, proc, ancestryVars, detectVars, portVars, snapVars>>

\* one iteration of the while loop: dequeue an object and attach its
\* children; the children not yet cached are snapshotted, each snapshot
\* answered by the process table as it is at that moment
BuildTreeVisit ==
    /\ UNCHANGED mainVars
    /\ pc = "tree_loop"
    /\ queue # <<>>
    /\ LET cur == Head(queue)
           cs == ChildPids(pid_to_ppid, process_cache[cur].pid)
           fresh == {cs[k] : k \in 1..Len(cs)} \ DOMAIN process_cache
       IN \E os \in [fresh -> {NoProcess} \cup (0..MaxPid)] :
            LET st == AttachChildren([cache |-> process_cache,
                                      children |-> children,
                                      queue |-> Tail(queue)], cur, cs, os)
            IN /\ process_cache' = st.cache
               /\ children' = st.children
               /\ queue' = st.queue
               /\ procTable' = os @@ procTable
               /\ snapshots' = snapshots \o Ascending(MaxPid, fresh)
    /\ UNCHANGED <<pc, proc, ancestry, current_pid, detectVars, pid_to_ppid, tree_rc,
                   portVars, snapVars>>

\* the queue is empty: return
BuildTreeExit ==
    /\ UNCHANGED mainVars
    /\ pc = "tree_loop"
    /\ queue = <<>>
    /\ pc' = "tree_done"
    /\ UNCHANGED <<procTable, proc, ancestryVars, detectVars, treeVars, portVars, snapVars>>

\* The root is the topmost resolved ancestor (or the target), freshly
\* snapshotted: its children list is empty.
InitTree ==
    /\ pc = "call_build_process_tree"
    /\ \E p \in Pids : proc = ProcessInfo(p, "proc", 1, "proc", 0)
    /\ children = (proc.pid :> <<>>)
    /\ tree_rc = <<>>
    /\ pid_to_ppid = <<>>
    /\ process_cache = <<>>
    /\ queue = <<>>
    /\ procTable = <<>>
    /\ ancestry = <<>>
    /\ current_pid = 0
    /\ snapshots = <<>>
    /\ IS_LINUX = TRUE
    /\ scan = 0
    /\ detect_returns = <<>>
    /\ port = 0
    /\ lsof_pids = <<>>
    /\ net_lines = <<>>
    /\ processes = <<>>
    /\ resolved = {}
    /\ listeners = {}
    /\ net_log = <<>>
    /\ IS_MACOS = FALSE
    /\ snap_pid = 0
    /\ snap_fields = <<>>
    /\ snap_result = <<>>
    /\ snap_failed = {}
    /\ args = <<>>
    /\ lookup = <<>>
    /\ exit_status = <<>>

NextTree ==
    \/ BuildTreeEnter
    \/ BuildTreeVisit
    \/ BuildTreeExit

SpecTree == InitTree /\ [][NextTree]_vars

(***************************************************************************)
(* Properties of build_process_tree                                        *)
(***************************************************************************)
Nodes == DOMAIN children

\* the pids of the entries of a node's children list
ChildPidAt(n, k) == process_cache[children[n][k]].pid

\* pid's ancestor k table links up (0 when the chain leaves the table)
RECURSIVE TableParentAfter(_, _)
TableParentAfter(pid, k) ==
    IF k = 0 THEN pid
    ELSE IF pid \notin DOMAIN pid_to_ppid THEN 0
    ELSE TableParentAfter(pid_to_ppid[pid], k - 1)

\* C9: no node's children collection holds two entries with the same pid.
C9_NoDuplicateChild ==
    \A n \in Nodes :
        \A i, j \in 1..Len(children[n]) :
            i # j => ChildPidAt(n, i) # ChildPidAt(n, j)

\* the root was dequeued a second time, with its children already attached
C9_Witness ==
    /\ pc = "tree_done"
    /\ Len(children[proc.pid]) >= 2
    /\ \E n \in Nodes : \E k \in 1..Len(children[n]) : children[n][k] = proc.pid

\* C10: every parent-child edge of the tree is an entry of the link table
\* fetched at the start (child pid -> parent pid), so every node is reached
\* from the root along table links alone, whatever ppid the child's own
\* snapshot reports.
C10_EdgesFromLinkTable ==
    /\ \A n \in Nodes :
         \A k \in 1..Len(children[n]) :
            /\ ChildPidAt(n, k) \in DOMAIN pid_to_ppid
            /\ pid_to_ppid[ChildPidAt(n, k)] = process_cache[n].pid
    /\ \A c \in DOMAIN process_cache :
         \E k \in 0..MaxPid : TableParentAfter(process_cache[c].pid, k) = proc.pid

\* a grandchild is attached although the snapshots of the child and of the
\* grandchild report other parents than the table does
C10_Witness ==
    /\ pc = "tree_done"
    /\ \E n \in Nodes \ {proc.pid} :
         /\ process_cache[n].ppid # pid_to_ppid[n]
         /\ \E k \in 1..Len(children[n]) :
               /\ children[n][k] # proc.pid
               /\ process_cache[children[n][k]].ppid # process_cache[n].pid

\* the nodes one children link away from the nodes of S
ChildrenOf(S) == UNION { {children[n][k] : k \in 1..Len(children[n])} : n \in S }

\* the nodes reached from S by at most k further children links
RECURSIVE ReachedWithin(_, _)
ReachedWithin(S, k) ==
    IF k = 0 THEN S ELSE ReachedWithin(S \cup ChildrenOf(S), k - 1)

\* the nodes reached from n by one children link or more
Descendants(n) == ReachedWithin(ChildrenOf({n}), Cardinality(Nodes))

\* C11: after build_process_tree, for every link table (a self-parent entry
\* or a cycle through the root included), no ProcessInfo is reached from
\* itself by following children links: no node is its own descendant.
C11_NoSelfDescendant ==
    pc = "tree_done" => \A n \in Nodes : n \notin Descendants(n)

\* the number of entries of all children lists together
RECURSIVE SumOfLengths(_)
SumOfLengths(S) ==
    IF S = {} THEN 0
    ELSE LET n == CHOOSE x \in S : TRUE
         IN Len(children[n]) + SumOfLengths(S \ {n})

Attachments == SumOfLengths(Nodes)

\* what is left to do: two for every table entry not yet attached, one for
\* every object waiting in the queue
Remaining == 2 * (Cardinality(DOMAIN pid_to_ppid) - Attachments) + Len(queue)

\* C23: build_process_tree terminates for every link table, tables with
\* self-parent entries or cycles included, and it attaches at most as many
\* children as the fetched link table has entries: every iteration of the
\* loop lowers the work that remains, which is never negative.
C23_TerminatesAttachingOncePerEntry ==
    /\ [](Attachments <= Cardinality(DOMAIN pid_to_ppid))
    /\ [][(pc = "tree_loop" /\ pc' = "tree_loop") => Remaining' < Remaining]_vars

\* a cycle through the root: every entry of the table was attached, the
\* root included
C23_Witness ==
    /\ pc = "tree_done"
    /\ Attachments = Cardinality(DOMAIN pid_to_ppid)
    /\ Attachments >= 2
    /\ proc.pid \in ChildrenOf(Nodes)

\* the child pids whose snapshot returned None (a pid is snapshotted again
\* only while it is not cached, so the latest answer stands for all)
Skipped == {c \in DOMAIN procTable : procTable[c] = NoProcess}

\* the pids the link table places below pid, any number of links down
TableDescendants(pid) ==
    {d \in DOMAIN pid_to_ppid :
        \E k \in 1..Cardinality(DOMAIN pid_to_ppid) : TableParentAfter(d, k) = pid}

\* the pids of the nodes of the tree below the root
TreePids == {process_cache[n].pid : n \in DOMAIN process_cache} \ {proc.pid}

AttachedPids == {process_cache[n].pid : n \in ChildrenOf(Nodes)}

\* every child pid of a node that was resolved is in the node's list
SiblingsAttached ==
    \A n \in Nodes :
        \A s \in DOMAIN pid_to_ppid :
            (pid_to_ppid[s] = process_cache[n].pid /\ s \in DOMAIN process_cache)
                => s \in {ChildPidAt(n, k) : k \in 1..Len(children[n])}

\* nothing is raised once the table was fetched
NoErrorInTree == pc = "tree_raised" => tree_rc = <<>> /\ snapshots = <<>>

\* C24 as stated: a child pid of the link table whose snapshot returns None
\* is not attached and raises no error, none of its link-table descendants
\* appears in the tree, and its resolvable siblings are still attached.
C24_SkippedChildAndDescendantsAbsent ==
    pc = "tree_done" =>
        /\ NoErrorInTree
        /\ \A c \in Skipped :
              /\ c \notin AttachedPids
              /\ TableDescendants(c) \cap TreePids = {}
        /\ SiblingsAttached

\* the root is reached from d along table links before the pid c is
ReachesRootAvoiding(d, c) ==
    \E k \in 1..Cardinality(DOMAIN pid_to_ppid) :
        /\ TableParentAfter(d, k) = proc.pid
        /\ \A j \in 0..(k - 1) : TableParentAfter(d, j) # c

\* C24 amended: a child pid of the link table whose snapshot returns None
\* is not attached and raises no error, its resolvable siblings are still
\* attached, and a link-table descendant of it appears in the tree only
\* when the table links that descendant to the root along a path that
\* avoids the child (a table with a cycle through the root).
C24_SkippedChildCutsItsSubtree ==
    /\ NoErrorInTree
    /\ \A c \in Skipped :
          /\ c \notin AttachedPids
          /\ c \notin TreePids
          /\ \A d \in TreePids : ReachesRootAvoiding(d, c)
    /\ pc = "tree_done" => SiblingsAttached

\* a child of the root is skipped; its own table child is never
\* snapshotted and stays out of the tree
C24_Witness ==
    /\ pc = "tree_done"
    /\ \E c \in Skipped :
          /\ pid_to_ppid[c] = proc.pid
          /\ \E d \in TableDescendants(c) \ {c, proc.pid} :
                d \notin TreePids /\ d \notin DOMAIN procTable

\* ps gave a return code other than 0
QueryReturnedFailure(rc) == rc # <<>> /\ rc[1] # 0

\* C26: when the bulk parent-link query fails (non-zero return code),
\* build_process_tree returns without raising, takes no snapshot, and
\* leaves the root's children collection and every other field of the
\* root unchanged.
C26_FailedQueryLeavesRootAlone ==
    /\ [](QueryReturnedFailure(tree_rc) => pc = "tree_done" /\ snapshots = <<>>)
    /\ [][QueryReturnedFailure(tree_rc') =>
             /\ pc' = "tree_done"
             /\ UNCHANGED <<proc, children, snapshots, procTable>>]_vars

\* ps failed and build_process_tree has returned
C26_Witness ==
    /\ pc = "tree_done"
    /\ tree_rc = <<1>>
    /\ children = (proc.pid :> <<>>)

(***************************************************************************)
(* Text helpers of the port resolver                                       *)
(***************************************************************************)
Char(s, i) == SubSeq(s, i, i)

\* position of the first character of s that is c, 0 when there is none
FirstIndex(s, c) ==
    IF \E i \in 1..Len(s) : Char(s, i) = c
    THEN CHOOSE i \in 1..Len(s) :
            Char(s, i) = c /\ \A j \in 1..(i - 1) : Char(s, j) # c
    ELSE 0

\* str.split(sep) for a one-character separator
RECURSIVE Split(_, _)
Split(s, sep) ==
    LET i == FirstIndex(s, sep) IN
    IF i = 0 THEN <<s>>
    ELSE <<SubSeq(s, 1, i - 1)>> \o Split(SubSeq(s, i + 1, Len(s)), sep)

UpperDigits == "0123456789ABCDEF"

LowerDigits == "0123456789abcdef"

\* str.upper() on the characters a hexadecimal field can hold
RECURSIVE Upper(_)
Upper(s) ==
    IF s = "" THEN ""
    ELSE LET c == Char(s, 1)
             i == FirstIndex(LowerDigits, c)
         IN (IF i = 0 THEN c ELSE Char(UpperDigits, i)) \o Upper(SubSeq(s, 2, Len(s)))

\* int(s, 16)
RECURSIVE HexToInt(_)
HexToInt(s) ==
    IF s = "" THEN 0
    ELSE HexToInt(SubSeq(s, 1, Len(s) - 1)) * 16
         + (FirstIndex(UpperDigits, Upper(Char(s, Len(s)))) - 1)

RECURSIVE ToHex(_)
ToHex(n) ==
    IF n < 16 THEN Char(UpperDigits, n + 1)
    ELSE ToHex(n \div 16) \o Char(UpperDigits, (n % 16) + 1)

RECURSIVE ZeroPad(_, _)
ZeroPad(s, width) == IF Len(s) >= width THEN s ELSE ZeroPad("0" \o s, width)

\* f"{port:04X}"
PortHex(n) == ZeroPad(ToHex(n), 4)

DottedForward(addr_ip) ==
    ToString(HexToInt(SubSeq(addr_ip, 1, 2))) \o "." \o
    ToString(HexToInt(SubSeq(addr_ip, 3, 4))) \o "." \o
    ToString(HexToInt(SubSeq(addr_ip, 5, 6))) \o "." \o
    ToString(HexToInt(SubSeq(addr_ip, 7, 8)))

\* '.'.join(str(int(addr_ip[i:i+2], 16)) for i in range(6, -1, -2))
DottedDecimal(addr_ip) ==
    ToString(HexToInt(SubSeq(addr_ip, 7, 8))) \o "." \o
    ToString(HexToInt(SubSeq(addr_ip, 5, 6))) \o "." \o
    ToString(HexToInt(SubSeq(addr_ip, 3, 4))) \o "." \o
    ToString(HexToInt(SubSeq(addr_ip, 1, 2)))

\* the ip_str of find_process_by_port_linux_proc
IpString(addr_ip) == IF Len(addr_ip) = 8 THEN DottedDecimal(addr_ip) ELSE addr_ip

\* f"{ip_str}:{port}"
ListeningAddress(addr_ip, p) == IpString(addr_ip) \o ":" \o ToString(p)

(***************************************************************************)
(* find_process_by_port and find_process_by_port_linux_proc                *)
(***************************************************************************)
MaxLsofLines == 2

MaxNetLines == 2

QueryPorts == {80, 8080}

\* start_time is computed from the clock at every snapshot: two snapshots of
\* one process may or may not carry the same value
Stamps == {0, 1}

Stamped(info, t) == [info EXCEPT !.start_time = t]

RECURSIVE NoRepeat(_)
NoRepeat(list) ==
    \/ list = <<>>
    \/ /\ \A k \in 2..Len(list) : list[k] # Head(list)
       /\ NoRepeat(Tail(list))

\* stdout of `lsof -i :port -sTCP:LISTEN -t`, split in lines: one pid per
\* listening process, 0 standing for an empty line
LsofPidLists ==
    { out \in UNION { [1..n -> {0} \cup Pids] : n \in 0..MaxLsofLines } :
        NoRepeat(out) }

\* the addresses of the LISTEN lines of `lsof ... -a -p pid` (column 9)
LsofAddressLists ==
    { <<>>, <<"*:8080">>, <<"127.0.0.1:8080", "[::1]:8080">>,
      <<"*:8080", "*:8080">> }

\* if addr not in proc_info.listening_addresses: append
RECURSIVE AddAddresses(_, _)
AddAddresses(info, addrs) ==
    IF addrs = <<>> THEN info
    ELSE LET a == Head(addrs)
             known == \E k \in 1..Len(info.listening_addresses) :
                         info.listening_addresses[k] = a
         IN AddAddresses(IF known THEN info
                         ELSE [info EXCEPT !.listening_addresses = Append(@, a)],
                         Tail(addrs))

\* proc_info in processes: equality of dataclass instances, field by field
InProcesses(list, info) == \E k \in 1..Len(list) : list[k] = info

\* the lines /proc/net/tcp can hold: field count, local address, state, inode
TcpLines ==
    { [nfields |-> 12, local_addr |-> "local_address", state |-> "st", inode |-> "uid"],
      [nfields |-> 17, local_addr |-> "0100007F:1F90", state |-> "0A", inode |-> "101"],
      [nfields |-> 17, local_addr |-> "00000000:1F90", state |-> "0A", inode |-> "102"],
      [nfields |-> 17, local_addr |-> "0100007F:1F90", state |-> "01", inode |-> "103"],
      [nfields |-> 17, local_addr |-> "00000000:0050", state |-> "0A", inode |-> "104"],
      [nfields |-> 4,  local_addr |-> "0100007F:1F90", state |-> "0A", inode |-> ""] }

Tcp6Lines ==
    { [nfields |-> 17, local_addr |-> "00000000000000000000000000000000:1F90",
       state |-> "0A", inode |-> "105"] }

\* a file is a sequence of lines, one per socket; an unreadable file gives
\* none
NetFiles(lines, n) ==
    { f \in UNION { [1..k -> lines] : k \in 0..n } : NoRepeat(f) }

LineSelectedByPort(line, p) ==
    /\ ~(line.nfields < 10)
    /\ Contains(line.local_addr, ":")
    /\ Upper(Split(line.local_addr, ":")[2]) = Upper(PortHex(p))

\* the tests a line passes before its owner is looked up
LineSelected(line, p) ==
    /\ ~(line.nfields < 10)
    /\ ~(line.state # "0A")
    /\ Contains(line.local_addr, ":")
    /\ Upper(Split(line.local_addr, ":")[2]) = Upper(PortHex(p))

\* the call of lsof on line 358 stands outside every try block: an exception
\* run_command lets through leaves find_process_by_port
FindByPortEnter ==
    /\ UNCHANGED mainVars
    /\ pc = "call_find_process_by_port"
    /\ processes' = <<>>
    /\ \E outcome \in RunOutcomes, out \in LsofPidLists :
         IF Raises(outcome) /\ ~RunCommandCatches(outcome)
         THEN /\ pc' = "port_raised"
              /\ UNCHANGED lsof_pids
         ELSE /\ lsof_pids' = IF ReturnCode(outcome) = 0 THEN out ELSE <<>>
              /\ pc' = "lsof_loop"
    /\ UNCHANGED <<procTable, proc, ancestryVars, detectVars, treeVars, snapVars,
                   port, net_lines, resolved, listeners, net_log>>

\* one pid printed by lsof: snapshot it, collect its addresses, add it
FindByPortLsofPid ==
    /\ UNCHANGED mainVars
    /\ pc = "lsof_loop"
    /\ lsof_pids # <<>>
    /\ LET pid == Head(lsof_pids) IN
         IF pid = 0
         THEN UNCHANGED <<processes, resolved, listeners>>
         ELSE \E os \in [{pid} -> {NoProcess, 1}], t \in Stamps,
                 addrs \in LsofAddressLists :
                LET snap == get_process_info(os, pid) IN
                IF snap = <<>>
                THEN UNCHANGED <<processes, resolved, listeners>>
                ELSE LET info == AddAddresses(Stamped(snap[1], t), addrs) IN
                     /\ processes' = IF InProcesses(processes, info)
                                     THEN processes
                                     ELSE Append(processes, info)
                     /\ resolved' = resolved \cup
                            {<<pid, addrs[k]>> : k \in 1..Len(addrs)}
                     /\ listeners' = listeners \cup {pid}
    /\ lsof_pids' = Tail(lsof_pids)
    /\ UNCHANGED <<pc, procTable, proc, ancestryVars, detectVars, treeVars, snapVars,
                   port, net_lines, net_log>>

FallbackOnLinux(list, linux) == linux

\* if not processes and IS_LINUX
FallbackNeeded(list, linux) == list = <<>> /\ linux

\* after the lsof loop: fall back to /proc/net only with nothing found, on
\* Linux
FindByPortLsofDone ==
    /\ UNCHANGED mainVars
    /\ pc = "lsof_loop"
    /\ lsof_pids = <<>>
    /\ IF FallbackNeeded(processes, IS_LINUX)
       THEN /\ \E tcp \in NetFiles(TcpLines, MaxNetLines),
                  tcp6 \in NetFiles(Tcp6Lines, 1) :
                 net_lines' = tcp \o tcp6
            /\ pc' = "proc_net"
       ELSE /\ pc' = "port_done"
            /\ UNCHANGED net_lines
    /\ UNCHANGED <<procTable, proc, ancestryVars, detectVars, treeVars, snapVars,
                   port, lsof_pids, processes, resolved, listeners, net_log>>

\* what reading one line came to: whether the owner of its inode was looked
\* up, the owner snapshotted (0: none) and the address recorded ("": none)
Logged(line, looked_up, owner, addr) ==
    [line |-> line, looked_up |-> looked_up, owner |-> owner, addr |-> addr]

\* one line of a socket table
FindByPortNetLine ==
    /\ UNCHANGED mainVars
    /\ pc = "proc_net"
    /\ net_lines # <<>>
    /\ LET line == Head(net_lines) IN
         IF ~LineSelected(line, port)
         THEN /\ net_log' = Append(net_log, Logged(line, FALSE, 0, ""))
              /\ UNCHANGED <<processes, resolved, listeners>>
         ELSE \* find_process_by_socket_inode_linux: the first pid holding the
              \* inode (0: nobody), snapshotted
              \E owner \in {0} \cup Pids, t \in Stamps :
                LET snap == get_process_info((owner :> 1), owner) IN
                IF owner = 0 \/ snap = <<>>
                THEN /\ net_log' = Append(net_log, Logged(line, TRUE, 0, ""))
                     /\ UNCHANGED <<processes, resolved, listeners>>
                ELSE LET addr == ListeningAddress(
                                    Split(line.local_addr, ":")[1], port)
                         info == [Stamped(snap[1], t) EXCEPT
                                    !.listening_addresses = Append(@, addr)]
                     IN /\ processes' = IF InProcesses(processes, info)
                                        THEN processes
                                        ELSE Append(processes, info)
                        /\ resolved' = resolved \cup {<<owner, addr>>}
                        /\ listeners' = listeners \cup {owner}
                        /\ net_log' = Append(net_log,
                                             Logged(line, TRUE, owner, addr))
    /\ net_lines' = Tail(net_lines)
    /\ UNCHANGED <<pc, procTable, proc, ancestryVars, detectVars, treeVars, snapVars,
                   port, lsof_pids>>

FindByPortNetDone ==
    /\ UNCHANGED mainVars
    /\ pc = "proc_net"
    /\ net_lines = <<>>
    /\ pc' = "port_done"
    /\ UNCHANGED <<procTable, proc, ancestryVars, detectVars, treeVars, portVars, snapVars>>

InitPort ==
    /\ pc = "call_find_process_by_port"
    /\ port \in QueryPorts
    /\ IS_LINUX \in BOOLEAN
    /\ lsof_pids = <<>>
    /\ net_lines = <<>>
    /\ processes = <<>>
    /\ resolved = {}
    /\ listeners = {}
    /\ net_log = <<>>
    /\ IS_MACOS = FALSE
    /\ snap_pid = 0
    /\ snap_fields = <<>>
    /\ snap_result = <<>>
    /\ snap_failed = {}
    /\ args = <<>>
    /\ lookup = <<>>
    /\ exit_status = <<>>
    /\ procTable = <<>>
    /\ proc = ProcessInfo(1, "proc", 0, "proc", 0)
    /\ ancestry = <<>>
    /\ current_pid = 0
    /\ snapshots = <<>>
    /\ scan = 0
    /\ detect_returns = <<>>
    /\ pid_to_ppid = <<>>
    /\ process_cache = <<>>
    /\ queue = <<>>
    /\ children = <<>>
    /\ tree_rc = <<>>

NextPort ==
    \/ FindByPortEnter
    \/ FindByPortLsofPid
    \/ FindByPortLsofDone
    \/ FindByPortNetLine
    \/ FindByPortNetDone

SpecPort == InitPort /\ [][NextPort]_vars

(***************************************************************************)
(* The fallback reading one listening line of /proc/net/tcp, for every     *)
(* IPv4 address made of sample octets                                      *)
(***************************************************************************)
ByteSamples == {0, 1, 10, 127, 255}

\* the kernel prints each octet as two upper-case hexadecimal digits
Hex2(b) == ZeroPad(ToHex(b), 2)

\* the local_address field of a socket bound to the octets b and port p
LocalAddress(b, p) ==
    Hex2(b[1]) \o Hex2(b[2]) \o Hex2(b[3]) \o Hex2(b[4]) \o ":" \o PortHex(p)

\* lsof found nothing and the fallback is about to read the table's line
InitAddress ==
    /\ pc = "proc_net"
    /\ port \in QueryPorts
    /\ IS_LINUX = TRUE
    /\ \E b \in [1..4 -> ByteSamples] :
          net_lines = <<[nfields |-> 17, local_addr |-> LocalAddress(b, port),
                         state |-> "0A", inode |-> "101"]>>
    /\ lsof_pids = <<>>
    /\ processes = <<>>
    /\ resolved = {}
    /\ listeners = {}
    /\ net_log = <<>>
    /\ IS_MACOS = FALSE
    /\ snap_pid = 0
    /\ snap_fields = <<>>
    /\ snap_result = <<>>
    /\ snap_failed = {}
    /\ args = <<>>
    /\ lookup = <<>>
    /\ exit_status = <<>>
    /\ procTable = <<>>
    /\ proc = ProcessInfo(1, "proc", 0, "proc", 0)
    /\ ancestry = <<>>
    /\ current_pid = 0
    /\ snapshots = <<>>
    /\ scan = 0
    /\ detect_returns = <<>>
    /\ pid_to_ppid = <<>>
    /\ process_cache = <<>>
    /\ queue = <<>>
    /\ children = <<>>
    /\ tree_rc = <<>>

NextAddress ==
    \/ FindByPortNetLine
    \/ FindByPortNetDone

SpecAddress == InitAddress /\ [][NextAddress]_vars

(***************************************************************************)
(* Properties of find_process_by_port                                      *)
(***************************************************************************)
\* C4: the returned list holds no two entries with the same pid, on the lsof
\* path and on the /proc/net path alike, and every address resolved for a
\* process is on that process's single entry.
C4_OneEntryPerPid ==
    pc = "port_done" =>
        /\ \A i, j \in 1..Len(processes) :
              i # j => processes[i].pid # processes[j].pid
        /\ \A pr \in resolved :
              \A k \in 1..Len(processes) :
                 processes[k].pid = pr[1] =>
                    \E a \in 1..Len(processes[k].listening_addresses) :
                       processes[k].listening_addresses[a] = pr[2]

\* the hexadecimal address of a logged line (the text before the colon)
AddrHex(e) == Split(e.line.local_addr, ":")[1]

\* C15: in the socket-table fallback a line whose state field is not '0A'
\* never contributes a process or an address to the result, whatever its
\* port, and no owner lookup is made for its inode.
C15_OnlyListenLines ==
    /\ \A i \in 1..Len(net_log) :
          net_log[i].line.state # "0A" =>
              /\ ~net_log[i].looked_up
              /\ net_log[i].owner = 0
              /\ net_log[i].addr = ""
    /\ net_log # <<>> =>
          \A k \in 1..Len(processes) :
              \E i \in 1..Len(net_log) :
                  /\ net_log[i].line.state = "0A"
                  /\ net_log[i].owner = processes[k].pid
                  /\ processes[k].listening_addresses = <<net_log[i].addr>>

\* an established connection on the port asked for was read, and a listening
\* socket on the same port gave a process
C15_Witness ==
    /\ pc = "port_done"
    /\ \E i \in 1..Len(net_log) :
          /\ net_log[i].line.state = "01"
          /\ Split(net_log[i].line.local_addr, ":")[2] = PortHex(port)
    /\ processes # <<>>

\* a step that reads a socket table or takes a line of one
ConsultsSocketTables ==
    \/ pc # "proc_net" /\ pc' = "proc_net"
    \/ net_lines' # net_lines
    \/ net_log' # net_log

\* the lsof strategy is through
PrimaryDone == pc = "lsof_loop" /\ lsof_pids = <<>>

\* C25: find_process_by_port consults the kernel socket tables only when
\* the lsof strategy produced no process and the platform is Linux; when
\* the lsof strategy yields a process the list returned is that strategy's
\* list and the fallback is not run.
C25_FallbackOnlyAfterEmptyPrimary ==
    [][/\ (pc # "proc_net" /\ ConsultsSocketTables) =>
             (PrimaryDone /\ processes = <<>> /\ IS_LINUX)
       /\ (PrimaryDone /\ processes # <<>>) =>
             (pc' = "port_done" /\ processes' = processes
                /\ ~ConsultsSocketTables)]_vars

\* on Linux the lsof strategy found a process and the function returned
\* without a line of the socket tables read
C25_Witness ==
    /\ pc = "port_done"
    /\ IS_LINUX
    /\ processes # <<>>
    /\ net_lines = <<>>
    /\ net_log = <<>>

\* C16: when neither lsof nor the socket-table fallback finds a listener for
\* the port (lsof missing or failing and the tables unreadable included),
\* find_process_by_port returns an empty list and raises no exception.
C16_EmptyNotError ==
    /\ pc # "port_raised"
    /\ (pc = "port_done" /\ listeners = {}) => processes = <<>>

\* the octet whose two-digit hexadecimal form is the i-th byte pair of hex
Octet(hex, i) ==
    CHOOSE b \in ByteSamples : Hex2(b) = SubSeq(hex, 2 * i - 1, 2 * i)

\* C17: in the socket-table fallback an 8-hex-digit local address is turned
\* into dotted decimal by reading its four byte pairs in reverse order, and
\* the port is printed in decimal: the address b0b1b2b3 gives
\* 'b3.b2.b1.b0:port', so '0100007F:1F90' gives '127.0.0.1:8080'.
C17_ReversedBytePairs ==
    \A i \in 1..Len(net_log) :
        LET e == net_log[i]
            hex == AddrHex(e)
        IN (e.addr # "" /\ Len(hex) = 8) =>
              /\ e.addr = ToString(Octet(hex, 4)) \o "." \o
                          ToString(Octet(hex, 3)) \o "." \o
                          ToString(Octet(hex, 2)) \o "." \o
                          ToString(Octet(hex, 1)) \o ":" \o ToString(port)
              /\ e.line.local_addr = "0100007F:1F90" => e.addr = "127.0.0.1:8080"

\* the line of the loopback listener on port 8080 was read and resolved
C17_Witness ==
    /\ pc = "port_done"
    /\ Len(net_log) = 1
    /\ net_log[1].line.local_addr = "0100007F:1F90"
    /\ net_log[1].addr = "127.0.0.1:8080"
    /\ processes # <<>>
    /\ processes[1].listening_addresses = <<"127.0.0.1:8080">>

\* C18: in the port resolver's socket-table fallback a local address whose
\* hex form is not 8 digits long (a tcp6 entry) is recorded in the listening
\* address as the bracketed literal hex form '[<hex>]:port'.
C18_BracketedLiteral ==
    \A i \in 1..Len(net_log) :
        (net_log[i].addr # "" /\ Len(AddrHex(net_log[i])) # 8) =>
            net_log[i].addr = "[" \o AddrHex(net_log[i]) \o "]:" \o ToString(port)

(***************************************************************************)
(* get_process_info: the snapshot provider                                 *)
(*                                                                         *)
(* A read or a command either gives a value or raises; an outcome is the   *)
(* record [raised, value].                                                 *)
(***************************************************************************)
Ok(v) == [raised |-> None, value |-> v]

Failed(exc, v) == [raised |-> exc, value |-> v]

\* try: x = <read> / except: x = default
Recover(outcome, default) ==
    IF outcome.raised # None THEN default ELSE outcome.value

Digits == "0123456789"

IsDigit(c) == FirstIndex(Digits, c) # 0

IsSpace(c) == c \in {" ", "\t", "\n"}

\* the longest prefix of s made of decimal digits
RECURSIVE LeadingDigits(_)
LeadingDigits(s) ==
    IF s = "" \/ ~IsDigit(Char(s, 1)) THEN ""
    ELSE Char(s, 1) \o LeadingDigits(SubSeq(s, 2, Len(s)))

\* int(s) succeeds (on the texts met here: a non-empty run of digits)
IsInt(s) == s # "" /\ LeadingDigits(s) = s

\* int(s)
RECURSIVE DecToInt(_)
DecToInt(s) ==
    IF s = "" THEN 0
    ELSE DecToInt(SubSeq(s, 1, Len(s) - 1)) * 10
         + (FirstIndex(Digits, Char(s, Len(s))) - 1)

\* str.strip() and str.lstrip()
RECURSIVE LStrip(_)
LStrip(s) ==
    IF s # "" /\ IsSpace(Char(s, 1)) THEN LStrip(SubSeq(s, 2, Len(s))) ELSE s

RECURSIVE RStrip(_)
RStrip(s) ==
    IF s # "" /\ IsSpace(Char(s, Len(s))) THEN RStrip(SubSeq(s, 1, Len(s) - 1))
    ELSE s

Strip(s) == LStrip(RStrip(s))

\* position of the first white space of s, Len(s) + 1 when there is none
RECURSIVE FirstSpace(_, _)
FirstSpace(s, i) ==
    IF i > Len(s) \/ IsSpace(Char(s, i)) THEN i ELSE FirstSpace(s, i + 1)

\* s.split(None, maxsplit) on a stripped text
RECURSIVE SplitFields(_, _)
SplitFields(s, maxsplit) ==
    LET t == LStrip(s) IN
    IF t = "" THEN <<>>
    ELSE IF maxsplit = 0 THEN <<t>>
    ELSE LET i == FirstSpace(t, 1) IN
         <<SubSeq(t, 1, i - 1)>> \o SplitFields(SubSeq(t, i, Len(t)), maxsplit - 1)

\* os.path.basename
Basename(path) ==
    LET slashes == {i \in 1..Len(path) : Char(path, i) = "/"} IN
    IF slashes = {} THEN path
    ELSE SubSeq(path, (CHOOSE i \in slashes : \A j \in slashes : j <= i) + 1,
                Len(path))

\* re.match(r'^(\d+) \((.+?)\) (\S) (\d+)', stat): the groups, or None.  The
\* name group is the shortest text after which ') <char> <digits>' follows.
StatMatch(stat) ==
    LET d == LeadingDigits(stat)
        first == Len(d) + 3
        Ends == {k \in (first + 1)..(Len(stat) - 4) :
                    /\ SubSeq(stat, k, k + 1) = ") "
                    /\ ~IsSpace(Char(stat, k + 2))
                    /\ Char(stat, k + 3) = " "
                    /\ IsDigit(Char(stat, k + 4))
                    /\ \A j \in first..(k - 1) : Char(stat, j) # "\n"}
    IN IF d # "" /\ Len(stat) >= first /\ SubSeq(stat, Len(d) + 1, Len(d) + 2) = " ("
          /\ Ends # {}
       THEN LET k == CHOOSE e \in Ends : \A o \in Ends : e <= o IN
            <<[pid |-> d,
               name |-> SubSeq(stat, first, k - 1),
               state |-> Char(stat, k + 2),
               ppid |-> DecToInt(LeadingDigits(SubSeq(stat, k + 4, Len(stat))))]>>
       ELSE <<>>

\* ProcessInfo(pid=, name=, ppid=, user=, cmd=, start_time=, cwd=, rss_kb=,
\* env_vars=)
SnapshotInfo(pid, name, ppid, user, cmd, start_time, cwd, rss_kb, env_vars) ==
    ProcessInfo(pid, name, ppid, cmd, start_time) @@
    [user |-> user, cwd |-> cwd, rss_kb |-> rss_kb, env_vars |-> env_vars]

(***************************************************************************)
(* What the operating system can answer                                    *)
(***************************************************************************)
\* /proc/<pid>/stat
StatTexts(pid) ==
    { ToString(pid) \o " (app) S 1 " \o ToString(pid),
      ToString(pid) \o " (tmux: server) S 1 " \o ToString(pid),
      ToString(pid) \o " (a) R 2) S 1 " \o ToString(pid),
      ToString(pid) \o " app S 1",
      "" }

StatReads(pid) ==
    {Failed("FileNotFoundError", ""), Failed("PermissionError", "")}
    \cup {Ok(t) : t \in StatTexts(pid)}

\* /proc/<pid>/cmdline with the NULs replaced, stripped
CmdlineReads == {Failed("PermissionError", ""), Ok(""), Ok("app --serve")}

\* os.stat and pwd.getpwuid
UserReads == {Failed("KeyError", ""), Ok("root")}

\* /proc/uptime and field 22 of stat: 0 stands for the time computed, 1 for
\* datetime.now()
StartTimeReads == {Failed("ValueError", 1), Ok(0)}

\* /proc/<pid>/status: the VmRSS value, if the file has the line
StatusReads == {Failed("PermissionError", <<>>), Ok(<<>>), Ok(<<2048>>)}

\* os.readlink of /proc/<pid>/cwd
CwdReads == {Failed("PermissionError", None), Ok("/srv/app")}

\* /proc/<pid>/environ as key-value pairs
EnvironReads ==
    {Failed("PermissionError", {}), Ok({}), Ok({<<"HOME", "/root">>})}

\* stdout of `ps -p pid -o pid=,ppid=,user=,comm=,etime=,rss=`
PsTexts(pid) ==
    { "",
      "  " \o ToString(pid) \o "     1 root /usr/sbin/app 01:00 2048\n",
      ToString(pid) \o " 1 root /usr/sbin/app 01:00 -\n",
      ToString(pid) \o " 1 root /usr/sbin/app 01:00\n",
      ToString(pid) \o " ? root /usr/sbin/app 01:00 2048\n",
      ToString(pid) \o " 1 root /Applications/Some App 01:00 2048\n" }

\* the 'n' field of `lsof -a -p pid -d cwd -Fn`, if a line has one
LsofCwdOutputs == {<<>>, <<"/srv/app">>}

\* the assignments of `ps -p pid -E`
PsEnvOutputs == {{}, {<<"HOME", "/root">>}}

ExceptionClasses ==
    {"CalledProcessError", "FileNotFoundError", "PermissionError",
     "ValueError", "KeyError", "IndexError"}

\* get_process_info_linux: `except:` around the whole body
LinuxCatches(exc) == TRUE

MacosCatchesValueError(exc) == exc = "ValueError"

\* get_process_info_macos: `except Exception` around the whole body
MacosCatches(exc) == exc \in ExceptionClasses

(***************************************************************************)
(* The actions of get_process_info                                         *)
(***************************************************************************)
\* leave the function: return the result when the exception (if any) is
\* caught, let it through otherwise
Finish(result, failures, caught) ==
    /\ snap_failed' = snap_failed \cup failures
    /\ IF caught
       THEN snap_result' = result /\ pc' = "info_done"
       ELSE snap_result' = snap_result /\ pc' = "info_raised"

\* the lookups of a set of <<lookup, exception or None>> that failed
Failures(named) == {f \in named : f[2] # None}

\* what is recorded of a command that did not give its answer
CommandFailure(outcome) == IF ReturnCode(outcome) = 0 THEN None ELSE outcome

\* the dispatch on the platform
GetProcessInfoEnter ==
    /\ UNCHANGED mainVars
    /\ pc = "call_get_process_info"
    /\ pc' = IF IS_MACOS THEN "macos_ps"
             ELSE IF IS_LINUX THEN "linux_stat"
             ELSE "macos_ps"
    /\ UNCHANGED <<procTable, proc, ancestryVars, detectVars, treeVars,
                   portVars, snapVars>>

\* get_process_info_linux: read and match the stat record
GetProcessInfoLinuxStat ==
    /\ UNCHANGED mainVars
    /\ pc = "linux_stat"
    /\ \E read \in StatReads(snap_pid) :
         IF read.raised # None
         THEN /\ Finish(<<>>, {<<"stat", read.raised>>}, LinuxCatches(read.raised))
              /\ UNCHANGED snap_fields
         ELSE LET match == StatMatch(read.value) IN
              IF match = <<>>
              THEN /\ Finish(<<>>, {<<"stat", "no match">>}, TRUE)
                   /\ UNCHANGED snap_fields
              ELSE /\ snap_fields' = [stat |-> read.value] @@ match[1]
                   /\ pc' = "linux_lookups"
                   /\ UNCHANGED <<snap_result, snap_failed>>
    /\ UNCHANGED <<procTable, proc, ancestryVars, detectVars, treeVars,
                   portVars, IS_MACOS, snap_pid>>

\* get_process_info_linux: the lookups that follow, each in a try block of its
\* own, and the return
GetProcessInfoLinuxLookups ==
    /\ UNCHANGED mainVars
    /\ pc = "linux_lookups"
    /\ \E cmdline \in CmdlineReads, user \in UserReads,
          start \in StartTimeReads, status \in StatusReads,
          cwd \in CwdReads, environ \in EnvironReads :
         LET name == snap_fields.name
             text == Recover(cmdline, "")
             vmrss == Recover(status, <<>>)
             info == SnapshotInfo(snap_pid, name, snap_fields.ppid,
                                  Recover(user, "unknown"),
                                  IF text = "" THEN "[" \o name \o "]" ELSE text,
                                  Recover(start, 1),
                                  Recover(cwd, None),
                                  IF vmrss = <<>> THEN 0 ELSE vmrss[1],
                                  Recover(environ, {}))
         IN Finish(<<info>>,
                   Failures({<<"cmdline", cmdline.raised>>, <<"user", user.raised>>,
                             <<"start_time", start.raised>>,
                             <<"rss", status.raised>>, <<"cwd", cwd.raised>>,
                             <<"env", environ.raised>>}),
                   TRUE)
    /\ UNCHANGED <<procTable, proc, ancestryVars, detectVars, treeVars,
                   portVars, IS_MACOS, snap_pid, snap_fields>>

\* get_process_info_macos: run ps and parse the basic record
GetProcessInfoMacosPs ==
    /\ UNCHANGED mainVars
    /\ pc = "macos_ps"
    /\ \E outcome \in RunOutcomes, stdout \in PsTexts(snap_pid) :
         LET parts == SplitFields(Strip(stdout), 5) IN
         IF Escapes(outcome)
         THEN /\ Finish(<<>>, {<<"ps", outcome>>}, MacosCatches(outcome))
              /\ UNCHANGED snap_fields
         ELSE IF ReturnCode(outcome) # 0 \/ Strip(stdout) = ""
         THEN /\ Finish(<<>>, {<<"ps", "no output">>}, TRUE)
              /\ UNCHANGED snap_fields
         ELSE IF Len(parts) < 6
         THEN /\ Finish(<<>>, {<<"ps", "short record">>}, TRUE)
              /\ UNCHANGED snap_fields
         ELSE IF ~IsInt(parts[1])
         THEN /\ Finish(<<>>, {<<"pid", "ValueError">>}, MacosCatches("ValueError"))
              /\ UNCHANGED snap_fields
         ELSE IF ~IsInt(parts[2])
         THEN /\ Finish(<<>>, {<<"ppid", "ValueError">>}, MacosCatches("ValueError"))
              /\ UNCHANGED snap_fields
         ELSE IF ~IsInt(parts[6])
         THEN /\ Finish(<<>>, {<<"rss", "ValueError">>}, MacosCatches("ValueError"))
              /\ UNCHANGED snap_fields
         ELSE /\ snap_fields' = [pid |-> DecToInt(parts[1]),
                                 ppid |-> DecToInt(parts[2]),
                                 user |-> parts[3],
                                 name |-> Basename(parts[4]),
                                 rss_kb |-> DecToInt(parts[6])]
              /\ pc' = "macos_lookups"
              /\ UNCHANGED <<snap_result, snap_failed>>
    /\ UNCHANGED <<procTable, proc, ancestryVars, detectVars, treeVars,
                   portVars, IS_MACOS, snap_pid>>

\* get_process_info_macos: the command line, the working directory and the
\* environment, one command each, and the return
GetProcessInfoMacosLookups ==
    /\ UNCHANGED mainVars
    /\ pc = "macos_lookups"
    /\ \E cmd_run \in RunOutcomes, cwd_run \in RunOutcomes, env_run \in RunOutcomes,
          lsof_out \in LsofCwdOutputs, env_out \in PsEnvOutputs :
         LET cwd_ran == ~Escapes(cmd_run)
             env_ran == cwd_ran /\ ~Escapes(cwd_run)
             escaped == ~env_ran \/ Escapes(env_run)
             exc == IF Escapes(cmd_run) THEN cmd_run
                    ELSE IF Escapes(cwd_run) THEN cwd_run
                    ELSE env_run
             failures ==
                 Failures({<<"cmd", CommandFailure(cmd_run)>>,
                           <<"cwd", IF cwd_ran THEN CommandFailure(cwd_run) ELSE None>>,
                           <<"env", IF env_ran THEN CommandFailure(env_run) ELSE None>>})
             info == SnapshotInfo(snap_fields.pid, snap_fields.name,
                                  snap_fields.ppid, snap_fields.user,
                                  IF ReturnCode(cmd_run) = 0 THEN "app --serve"
                                  ELSE snap_fields.name,
                                  0,
                                  IF ReturnCode(cwd_run) = 0 /\ lsof_out # <<>>
                                  THEN lsof_out[1] ELSE None,
                                  snap_fields.rss_kb,
                                  IF ReturnCode(env_run) = 0 THEN env_out ELSE {})
         IN IF escaped
            THEN Finish(<<>>, failures, MacosCatches(exc))
            ELSE Finish(<<info>>, failures, TRUE)
    /\ UNCHANGED <<procTable, proc, ancestryVars, detectVars, treeVars,
                   portVars, IS_MACOS, snap_pid, snap_fields>>

\* a pid is asked for on macOS, on Linux or on another Unix
InitSnapshot ==
    /\ pc = "call_get_process_info"
    /\ IS_MACOS \in BOOLEAN
    /\ IS_LINUX \in BOOLEAN
    /\ ~(IS_MACOS /\ IS_LINUX)
    /\ snap_pid \in Pids
    /\ snap_fields = <<>>
    /\ snap_result = <<>>
    /\ snap_failed = {}
    /\ args = <<>>
    /\ lookup = <<>>
    /\ exit_status = <<>>
    /\ procTable = <<>>
    /\ proc = ProcessInfo(1, "proc", 0, "proc", 0)
    /\ ancestry = <<>>
    /\ current_pid = 0
    /\ snapshots = <<>>
    /\ scan = 0
    /\ detect_returns = <<>>
    /\ pid_to_ppid = <<>>
    /\ process_cache = <<>>
    /\ queue = <<>>
    /\ children = <<>>
    /\ tree_rc = <<>>
    /\ port = 0
    /\ lsof_pids = <<>>
    /\ net_lines = <<>>
    /\ processes = <<>>
    /\ resolved = {}
    /\ listeners = {}
    /\ net_log = <<>>

NextSnapshot ==
    \/ GetProcessInfoEnter
    \/ GetProcessInfoLinuxStat
    \/ GetProcessInfoLinuxLookups
    \/ GetProcessInfoMacosPs
    \/ GetProcessInfoMacosLookups

SpecSnapshot == InitSnapshot /\ [][NextSnapshot]_vars

(***************************************************************************)
(* Properties of get_process_info                                          *)
(***************************************************************************)
\* C19: for every pid and every outcome of the reads and commands underneath
\* (missing process, permission failure, malformed output, missing tool)
\* get_process_info returns a ProcessInfo or None and never raises an
\* exception to its caller.
C19_NeverRaises ==
    /\ pc # "info_raised"
    /\ pc = "info_done" =>
          \/ snap_result = <<>>
          \/ /\ Len(snap_result) = 1
             /\ snap_result[1].pid = snap_pid
             /\ snap_result[1].name # ""

\* the program could not be executed, and the caller got None
C19_Witness ==
    /\ pc = "info_done"
    /\ snap_result = <<>>
    /\ \E f \in snap_failed : f[2] = "PermissionError"
    /\ ~IS_LINUX

\* the lookups the specification calls best effort
BestEffort == {"cwd", "env", "rss"}

\* C20: in both implementations, when the process exists and its pid, ppid,
\* user and name are readable, a failure of the working-directory,
\* environment or resident-memory lookup still gives a ProcessInfo, with the
\* failed field at its default (cwd None, env_vars empty, rss_kb 0).
C20_BestEffortLookups ==
    (/\ pc \in {"info_done", "info_raised"}
     /\ snap_failed # {}
     /\ \A f \in snap_failed : f[1] \in BestEffort) =>
        /\ pc = "info_done"
        /\ snap_result # <<>>
        /\ \A f \in snap_failed :
              /\ f[1] = "cwd" => snap_result[1].cwd = None
              /\ f[1] = "env" => snap_result[1].env_vars = {}
              /\ f[1] = "rss" => snap_result[1].rss_kb = 0

(***************************************************************************)
(* main: the lookup, the exits and the processing of the matches           *)
(*                                                                         *)
(* An absent option is the empty sequence, an absent name is None.  The    *)
(* pid lookup runs the actions of get_process_info and the port lookup     *)
(* those of find_process_by_port.                                          *)
(***************************************************************************)
MaxMatches == 2

\* the command lines: nothing, --pid 0, --pid 1, --pid 1 --port 8080,
\* --port 8080, a name, a name with --short or --tree, --pid 0 with a name
ArgLines ==
    LET line(pid, prt, name, short, tree) ==
            [pid |-> pid, port |-> prt, name |-> name, short |-> short,
             tree |-> tree]
    IN { line(<<>>, <<>>, None, FALSE, FALSE),
         line(<<0>>, <<>>, None, FALSE, FALSE),
         line(<<1>>, <<>>, None, FALSE, FALSE),
         line(<<1>>, <<8080>>, None, FALSE, FALSE),
         line(<<>>, <<8080>>, None, FALSE, FALSE),
         line(<<>>, <<>>, "nginx", FALSE, FALSE),
         line(<<>>, <<>>, "nginx", TRUE, FALSE),
         line(<<>>, <<>>, "nginx", FALSE, TRUE),
         line(<<0>>, <<>>, "nginx", FALSE, FALSE) }

\* Python's truth value of an Optional[int]
TruthyInt(opt) == opt # <<>> /\ opt[1] # 0

Chosen(kind, returned) == [kind |-> kind, returned |-> returned]

\* sys.exit(status), the end of main (status 0) or an exception nobody
\* catches (the interpreter exits with status 1)
Exit(status) ==
    /\ exit_status' = <<status>>
    /\ pc' = "main_exit"

\* the matches find_processes_by_name returns
NameMatches(name, n) == [k \in 1..n |-> ProcessInfo(k, name, 1, name, 0)]

\* if args.pid: ... elif args.port: ... elif args.name: ... else: help
MainEnter ==
    /\ pc = "main"
    /\ IF TruthyInt(args.pid)
       THEN /\ snap_pid' = args.pid[1]
            /\ lookup' = Chosen("pid", FALSE)
            /\ pc' = "call_get_process_info"
            /\ UNCHANGED <<port, processes, exit_status>>
       ELSE IF TruthyInt(args.port)
       THEN /\ port' = args.port[1]
            /\ lookup' = Chosen("port", FALSE)
            /\ pc' = "call_find_process_by_port"
            /\ UNCHANGED <<snap_pid, processes, exit_status>>
       ELSE IF Truthy(args.name)
       THEN \* find_processes_by_name: ps is run outside every try block
            \E outcome \in RunOutcomes, n \in 0..MaxMatches :
               IF Escapes(outcome)
               THEN /\ lookup' = Chosen("name", FALSE)
                    /\ Exit(1)
                    /\ UNCHANGED <<snap_pid, port, processes>>
               ELSE /\ lookup' = Chosen("name", TRUE)
                    /\ processes' = IF ReturnCode(outcome) = 0
                                    THEN NameMatches(args.name, n) ELSE <<>>
                    /\ IF processes' = <<>>
                       THEN Exit(1)
                       ELSE pc' = "main_found" /\ UNCHANGED exit_status
                    /\ UNCHANGED <<snap_pid, port>>
       ELSE /\ lookup' = Chosen("none", TRUE)
            /\ Exit(1)
            /\ UNCHANGED <<snap_pid, port, processes>>
    /\ UNCHANGED <<procTable, proc, ancestryVars, detectVars, treeVars,
                   lsof_pids, net_lines, resolved, listeners, net_log,
                   IS_MACOS, snap_fields, snap_result, snap_failed, args>>

\* proc = get_process_info(args.pid): one match, or exit 1
MainAfterPid ==
    /\ pc = "info_done"
    /\ lookup' = Chosen("pid", TRUE)
    /\ IF snap_result # <<>>
       THEN /\ processes' = snap_result
            /\ pc' = "main_found"
            /\ UNCHANGED exit_status
       ELSE /\ Exit(1)
            /\ UNCHANGED processes
    /\ UNCHANGED <<procTable, proc, ancestryVars, detectVars, treeVars,
                   port, lsof_pids, net_lines, resolved, listeners, net_log,
                   snapVars, args>>

\* processes = find_process_by_port(args.port): the list, or exit 1
MainAfterPort ==
    /\ pc = "port_done"
    /\ lookup' = Chosen("port", TRUE)
    /\ IF processes = <<>>
       THEN Exit(1)
       ELSE pc' = "main_found" /\ UNCHANGED exit_status
    /\ UNCHANGED <<procTable, proc, ancestryVars, detectVars, treeVars,
                   portVars, snapVars, args>>

\* the exception find_process_by_port let through ends the program
MainPortRaised ==
    /\ pc = "port_raised"
    /\ Exit(1)
    /\ UNCHANGED <<procTable, proc, ancestryVars, detectVars, treeVars,
                   portVars, snapVars, args, lookup>>

\* several matches without --short or --tree: list them and exit 0
MainListMatches ==
    /\ pc = "main_found"
    /\ Len(processes) > 1 /\ ~args.short /\ ~args.tree
    /\ Exit(0)
    /\ UNCHANGED <<procTable, proc, ancestryVars, detectVars, treeVars,
                   portVars, snapVars, args, lookup>>

\* every match is processed and printed, and main ends; systemctl and
\* docker in detect_source and ps in build_process_tree are run outside
\* every try block
MainProcess ==
    /\ pc = "main_found"
    /\ ~(Len(processes) > 1 /\ ~args.short /\ ~args.tree)
    /\ \E outcome \in RunOutcomes :
          IF Escapes(outcome) THEN Exit(1) ELSE Exit(0)
    /\ UNCHANGED <<procTable, proc, ancestryVars, detectVars, treeVars,
                   portVars, snapVars, args, lookup>>

InitCli ==
    /\ pc = "main"
    /\ args \in ArgLines
    /\ lookup = <<>>
    /\ exit_status = <<>>
    /\ IS_MACOS \in BOOLEAN
    /\ IS_LINUX \in BOOLEAN
    /\ ~(IS_MACOS /\ IS_LINUX)
    /\ snap_pid = 0
    /\ snap_fields = <<>>
    /\ snap_result = <<>>
    /\ snap_failed = {}
    /\ procTable = <<>>
    /\ proc = ProcessInfo(1, "proc", 0, "proc", 0)
    /\ ancestry = <<>>
    /\ current_pid = 0
    /\ snapshots = <<>>
    /\ scan = 0
    /\ detect_returns = <<>>
    /\ pid_to_ppid = <<>>
    /\ process_cache = <<>>
    /\ queue = <<>>
    /\ children = <<>>
    /\ tree_rc = <<>>
    /\ port = 0
    /\ lsof_pids = <<>>
    /\ net_lines = <<>>
    /\ processes = <<>>
    /\ resolved = {}
    /\ listeners = {}
    /\ net_log = <<>>

NextCli ==
    \/ MainEnter
    \/ MainAfterPid
    \/ MainAfterPort
    \/ MainPortRaised
    \/ MainListMatches
    \/ MainProcess
    \/ GetProcessInfoEnter
    \/ GetProcessInfoLinuxStat
    \/ GetProcessInfoLinuxLookups
    \/ GetProcessInfoMacosPs
    \/ GetProcessInfoMacosLookups
    \/ FindByPortEnter
    \/ FindByPortLsofPid
    \/ FindByPortLsofDone
    \/ FindByPortNetLine
    \/ FindByPortNetDone

SpecCli == InitCli /\ [][NextCli]_vars

(***************************************************************************)
(* Properties of main                                                      *)
(***************************************************************************)
\* the lookup returned and found nothing, or there was nothing to look up
NothingFound ==
    \/ lookup.kind = "none"
    \/ lookup.kind = "pid" /\ lookup.returned /\ snap_result = <<>>
    \/ lookup.kind \in {"port", "name"} /\ lookup.returned /\ processes = <<>>

\* C21: main exits with status 1 exactly when the pid lookup finds no
\* process, the port lookup returns an empty list, the name lookup returns
\* no match, or no lookup argument is given; every run in which a process
\* was found ends with status 0, the run that only lists several matches
\* included.
C21_ExitStatus ==
    pc = "main_exit" =>
        /\ exit_status = <<1>> <=> NothingFound
        /\ (lookup.returned /\ ~NothingFound) => exit_status = <<0>>

(***************************************************************************)
(* Properties of the stat record                                           *)
(***************************************************************************)
\* position of the last character of s that is c, 0 when there is none
LastIndex(s, c) ==
    LET at == {i \in 1..Len(s) : Char(s, i) = c} IN
    IF at = {} THEN 0 ELSE CHOOSE i \in at : \A j \in at : j <= i

\* the text between the first '(' and the last ')' of the record
NameOfRecord(stat) ==
    SubSeq(stat, FirstIndex(stat, "(") + 1, LastIndex(stat, ")") - 1)

\* the second field after the last ')' of the record
ParentOfRecord(stat) ==
    DecToInt(Split(SubSeq(stat, LastIndex(stat, ")") + 2, Len(stat)), " ")[2])

\* C28: get_process_info_linux takes as the name the text between the first
\* '(' and the last ')' of the stat record and as the parent id the second
\* field after that last ')', for every name, names that hold
\* ') <char> <digits>', parentheses or spaces included.
C28_NameBetweenOuterParens ==
    /\ pc = "linux_lookups" =>
          /\ snap_fields.name = NameOfRecord(snap_fields.stat)
          /\ snap_fields.ppid = ParentOfRecord(snap_fields.stat)
    /\ (pc = "info_done" /\ IS_LINUX /\ snap_result # <<>>) =>
          /\ snap_result[1].name = NameOfRecord(snap_fields.stat)
          /\ snap_result[1].ppid = ParentOfRecord(snap_fields.stat)

====
